---- MODULE Spec2Model ----
(***************************************************************************)
(* State-machine model of src/bot.py (RIZO card bot): the per-user         *)
(* cooldown/arming gate of handle_image, the asyncio semaphore that bounds *)
(* concurrent generations, and the key-rotation retry loop of              *)
(* openai_images_edit_with_retries.                                        *)
(*                                                                         *)
(* Handlers are coroutines on one event loop: an action is the code a      *)
(* handler runs between two suspension points (await), so it is atomic.    *)
(* Wall-clock time (datetime.utcnow) is a bounded counter of ticks,        *)
(* TicksPerSecond ticks to the second, since total_seconds() is            *)
(* fractional and int() truncates it.  asyncio.sleep is a suspension       *)
(* point; the model does not force the clock to advance while it lasts.    *)
(* asyncio.Semaphore is the one of current CPython (3.11 and later):       *)
(* release() hands the slot to the first suspended acquire.                *)
(*                                                                         *)
(* src/bot.py reads USER_COOLDOWN_SECONDS, RETRY_ATTEMPTS, the FOIL_*      *)
(* constants, logging and datetime without defining or importing them.     *)
(* The model takes the file as the running bot it is written to be: the    *)
(* two settings are integers >= 0 fixed at start, and the foil stamp, like *)
(* any post-processing step, either works or raises.                       *)
(***************************************************************************)
EXTENDS Integers, Sequences, FiniteSets, TLC

\* ------------------------------------------------------------------ bounds
MaxTime == 2            \* the clock stops at this tick
TicksPerSecond == 2     \* clock resolution
MaxCooldown == 1        \* USER_COOLDOWN_SECONDS ranges over 0..MaxCooldown
MaxRetry == 2           \* RETRY_ATTEMPTS ranges over 0..MaxRetry
MaxConcurrency == 2     \* MAX_CONCURRENCY ranges over 1..MaxConcurrency
NumTasks == 3           \* images being generated at once, at most
GateTasks == 2          \* the same, where the clock runs to MaxTime
MaxPool == 2            \* entries of OPENAI_KEYS, where every pool is tried

AllUsers == {"u1", "u2"}

\* user_last_request.get(user_id) when the user has no entry
None == -1

\* The key lists os.getenv("OPENAI_KEYS", "").split(",") can produce: unset
\* gives [""], never the empty list.
KeyPools == { <<"k1">>, <<"k1", "k2">> }

\* The entries a comma-separated OPENAI_KEYS can hold: keys, and the empty
\* string an unset variable, a trailing comma or a doubled comma leaves.
KeyUniverse == {"", "k1", "k2"}
\* every list split(",") can return with at most MaxPool entries, repeated
\* entries included
AllPools == UNION { [1..n -> KeyUniverse] : n \in 1..MaxPool }

\* What an upstream edit call can fail with (all caught by `except Exception`):
\* the call raises (authentication, rate limit, timeout), or
\* response.data[0].b64_json does on a malformed payload.
UpstreamErrors == {"APIError", "MalformedPayload"}
PostError == "PostProcessingError"
NoExc == "none"

VARIABLES
    clock,                  \* datetime.utcnow(), in ticks
    USER_COOLDOWN_SECONDS,  \* configuration, fixed at start
    RETRY_ATTEMPTS,
    MAX_CONCURRENCY,
    OPENAI_KEYS,
    horizon,                \* environment: the tick the clock stops at
    semaphore,              \* asyncio.Semaphore: [value, waiters]
    user_last_request,      \* user -> time | None
    can_generate,           \* user -> context.user_data["can_generate"]
    task,                   \* the admitted images' handle_image coroutines
    event,                  \* history: what the step just taken told the user
    armed_at,               \* history: user -> when can_generate was last set
    success_at              \* history: user -> when a card was last delivered

vars == << clock, USER_COOLDOWN_SECONDS, RETRY_ATTEMPTS, MAX_CONCURRENCY, OPENAI_KEYS,
           horizon, semaphore, user_last_request, can_generate, task, event, armed_at, success_at >>

config == << USER_COOLDOWN_SECONDS, RETRY_ATTEMPTS, MAX_CONCURRENCY, OPENAI_KEYS, horizon >>

Users == DOMAIN can_generate
Tasks == DOMAIN task
\* the users whose history (armed_at, success_at) is recorded
Watched == DOMAIN armed_at

\* ----------------------------------------------------------------- helpers
RangeOf(s) == { s[i] : i \in 1..Len(s) }

\* A free coroutine slot.
NewTask ==
    [ pc |-> "new", user |-> "u1", admission |-> "none",
      attempt |-> 0, key |-> "", tried_keys |-> {}, last_exc |-> NoExc, backoff |-> 0,
      exc |-> NoExc, calls |-> 0, slept |-> 0, upstream_err |-> NoExc ]

\* No handler has just told the user anything.
NoEvent ==
    [ kind |-> "none", user |-> "u1", last |-> None, armed_at |-> None, remaining |-> None ]

\* what handle_image decides about an image
RejectedKinds == {"cooldown", "not_armed"}
ImageKinds == RejectedKinds \cup {"admitted"}
\* the two interactions that arm a user
ArmingKinds == {"generate_cmd", "create_another"}
\* the spec's arm-window TTL, in ticks (the code has none)
ArmTTL == 1
\* how a pipeline ends: the photo or the failure text was sent and the
\* handler returned, or an exception left handle_image
CompletedKinds == {"photo", "failed", "failed_raised"}

\* pcs of an admitted image between its admission and its finally block
InFlightPcs == {"download", "waiting", "call", "sleep", "post", "reply_photo", "fail_reply"}
\* pcs inside `async with semaphore:`
GuardedPcs == {"call", "sleep", "post", "reply_photo"}

InFlight(u) == { t \in Tasks : task[t].user = u /\ task[t].pc \in InFlightPcs }
Guarded == { t \in Tasks : task[t].pc \in GuardedPcs }

\* (mutant) the cooldown check dropped from handle_image
CooldownActive_never(last, now) == FALSE

\* (now - last).total_seconds() < USER_COOLDOWN_SECONDS, in ticks
CooldownActive(last, now) ==
    /\ last # None
    /\ now - last < USER_COOLDOWN_SECONDS * TicksPerSecond

\* int(USER_COOLDOWN_SECONDS - (now - last).total_seconds()): int() truncates
\* toward zero, and the argument is positive where this is evaluated.
Remaining(last, now) ==
    (USER_COOLDOWN_SECONDS * TicksPerSecond - (now - last)) \div TicksPerSecond

\* (mutant) a pick_key with no fallback to the full list: random.choice of
\* an empty list raises, no key is returned
pick_key_no_fallback(exclude_keys) ==
    { k \in RangeOf(OPENAI_KEYS) : ~(exclude_keys # {} /\ k \in exclude_keys) }

\* (mutant) a pick_key that ignores exclude_keys
pick_key_ignores_exclusions(exclude_keys) == RangeOf(OPENAI_KEYS)

\* pick_key: the keys random.choice can return.
pick_key(exclude_keys) ==
    LET candidates == { k \in RangeOf(OPENAI_KEYS) : ~(exclude_keys # {} /\ k \in exclude_keys) }
    IN  IF candidates = {} THEN RangeOf(OPENAI_KEYS) ELSE candidates

\* for attempt in range(RETRY_ATTEMPTS + 1)
Attempts == RETRY_ATTEMPTS + 1

\* backoff = 1 + attempt * 2
Backoff(attempt) == 1 + attempt * 2

\* ------------------------------------------------------------- semaphore
\* asyncio.Semaphore: waiters is the FIFO of futures, one per suspended
\* acquire; done marks a future release() has resolved.
Locked(sem) == sem.value = 0 \/ sem.waiters # <<>>

RECURSIVE WakeUpNextFrom(_, _)
WakeUpNextFrom(sem, i) ==
    IF i > Len(sem.waiters) THEN sem
    ELSE IF ~sem.waiters[i].done
         THEN [ value |-> sem.value - 1,
                waiters |-> [sem.waiters EXCEPT ![i].done = TRUE] ]
         ELSE WakeUpNextFrom(sem, i + 1)

\* (mutant) a release that wakes nobody
WakeUpNext_nobody(sem) == sem

\* _wake_up_next: resolve the first pending future and take its slot for it
WakeUpNext(sem) == WakeUpNextFrom(sem, 1)

\* (mutant) an exit path of the guarded section that does not release
Release_keeps_slot(sem) == sem

\* release(): value += 1; _wake_up_next()
Release(sem) == WakeUpNext([sem EXCEPT !.value = @ + 1])

RECURSIVE WakeWhileFree(_)
WakeWhileFree(sem) ==
    LET next == WakeUpNext(sem)
    IN  IF sem.value > 0 /\ next # sem THEN WakeWhileFree(next) ELSE sem

RemoveWaiter(ws, t) == SelectSeq(ws, LAMBDA w : w.task # t)

\* the rest of acquire() after `await fut`: leave the queue, pass spare slots on
AfterWait(sem, t) == WakeWhileFree([sem EXCEPT !.waiters = RemoveWaiter(@, t)])

FutureDone(sem, t) == \E i \in 1..Len(sem.waiters) : sem.waiters[i].task = t /\ sem.waiters[i].done

\* the suspended acquires release() has handed a slot to
Granted == { t \in Tasks : task[t].pc = "waiting" /\ FutureDone(semaphore, t) }

\* (mutant) acquire() that never waits
CanAcquire_always(sem) == TRUE

\* `if not self.locked()` of acquire(): take a slot at once
CanAcquire(sem) == ~Locked(sem)

\* ------------------------------------------------------------------- Init
\* The state after the module is loaded, for a configuration and an
\* environment (the users, the number of images in flight, the clock's end).
InitWith(cooldowns, retries, concurrencies, pools, users, watched, ntasks, end) ==
    /\ clock = 0
    /\ USER_COOLDOWN_SECONDS \in cooldowns
    /\ RETRY_ATTEMPTS \in retries
    /\ MAX_CONCURRENCY \in concurrencies
    /\ OPENAI_KEYS \in pools
    /\ horizon = end
    /\ semaphore = [ value |-> MAX_CONCURRENCY, waiters |-> <<>> ]
    /\ user_last_request = [ u \in users |-> None ]
    /\ can_generate = [ u \in users |-> FALSE ]
    /\ task = [ t \in 1..ntasks |-> NewTask ]
    /\ event = NoEvent
    /\ armed_at = [ u \in watched |-> None ]
    /\ success_at = [ u \in watched |-> None ]

\* the cooldown and arming gate: every cooldown, over the whole clock
Init == InitWith(0..MaxCooldown, {0}, {1}, {<<"k1">>}, AllUsers, {"u1"}, GateTasks, MaxTime)

\* the concurrency slots: more images than slots
InitSlots == InitWith({0}, {0}, 1..MaxConcurrency, {<<"k1">>}, AllUsers, {}, NumTasks, 1)

\* the retry loop: every retry count and key pool
InitRetry == InitWith({0}, 0..MaxRetry, {1}, KeyPools, {"u1"}, {"u1"}, GateTasks, 1)

\* the credentials: every OPENAI_KEYS, blank entries included
InitKeys == InitWith({0}, 0..1, {1}, AllPools, {"u1"}, {}, GateTasks, 1)

\* the queue for the one slot: two users, the upstream failing or not
InitLive == InitWith({0}, {0}, {1}, {<<"k1">>}, AllUsers, {}, GateTasks, 1)

\* ---------------------------------------------------------------- actions
\* wall-clock time passes
Tick ==
    /\ clock < horizon
    /\ clock' = clock + 1
    /\ event' = NoEvent
    /\ UNCHANGED << config, semaphore, user_last_request, can_generate, task, armed_at, success_at >>

\* context.user_data["can_generate"] = True
Arm(u) ==
    /\ can_generate' = [can_generate EXCEPT ![u] = TRUE]
    /\ armed_at' = [ w \in Watched |-> IF w = u THEN clock ELSE armed_at[w] ]

\* (mutant) the disarm put off until after the first await of the pipeline
Disarm_after_await(u) == UNCHANGED << can_generate, armed_at >>

\* context.user_data["can_generate"] = False
Disarm(u) ==
    /\ can_generate' = [can_generate EXCEPT ![u] = FALSE]
    /\ armed_at' = [ w \in Watched |-> IF w = u THEN None ELSE armed_at[w] ]

\* generate_cmd: arm the user, reply
generate_cmd(u) ==
    /\ Arm(u)
    /\ event' = [ NoEvent EXCEPT !.kind = "generate_cmd", !.user = u ]
    /\ UNCHANGED << clock, config, semaphore, user_last_request, task, success_at >>

\* button_callback: after query.answer(), arm the user on "create_another"
button_callback(u) ==
    \E data \in {"create_another", "other"}, answered \in BOOLEAN :
        /\ IF answered /\ data = "create_another"
           THEN /\ Arm(u)
                /\ event' = [ NoEvent EXCEPT !.kind = "create_another", !.user = u ]
           ELSE /\ UNCHANGED << can_generate, armed_at >>
                /\ event' = NoEvent
        /\ UNCHANGED << clock, config, semaphore, user_last_request, task, success_at >>

\* The first iteration step of the retry loop up to its await: pick a key,
\* add it to tried_keys, issue the edit call in a thread.
StartAttempt(r, key) ==
    [ r EXCEPT !.pc = "call", !.key = key, !.tried_keys = @ \cup {key}, !.calls = @ + 1 ]

\* handle_image's decision about an image: the cooldown check (lines
\* 214-215), then the armed check (line 220).
Decide(last, now, is_armed) ==
    IF CooldownActive(last, now) THEN "cooldown"
    ELSE IF ~is_armed THEN "not_armed"
    ELSE "admitted"

\* (mutant) the `return` after the not-armed reply is missing
Returns_only_on_cooldown(decision) == decision = "cooldown"

\* (mutant) the `return` after the cooldown reply is missing
Returns_only_when_not_armed(decision) == decision = "not_armed"

\* the `return` after each rejection's reply (lines 218 and 222)
Returns(decision) == decision \in RejectedKinds

\* The coroutine slots are interchangeable: an admitted image takes the
\* lowest free one.
FreeSlots == { t \in Tasks : task[t].pc = "new" }
FirstFree == CHOOSE t \in FreeSlots : \A s \in FreeSlots : t <= s

\* handle_image up to its first await past the admission: the cooldown
\* check, the armed check, the rejection's reply and return, or the admission
\* (lines 210-228).  An image that would be admitted with every slot of the
\* model busy is not submitted.
handle_image(u) ==
    LET now == clock
        last == user_last_request[u]
        decision == Decide(last, now, can_generate[u])
        t == FirstFree
    IN  /\ Returns(decision) \/ FreeSlots # {}
        /\ event' = [ NoEvent EXCEPT !.kind = decision, !.user = u, !.last = last,
                            !.armed_at = IF u \in Watched THEN armed_at[u] ELSE None,
                            !.remaining = IF decision = "cooldown" THEN Remaining(last, now)
                                          ELSE None ]
        /\ IF Returns(decision)
           THEN UNCHANGED << user_last_request, can_generate, armed_at, task >>
           ELSE /\ task' = [task EXCEPT ![t] = [ NewTask EXCEPT !.pc = "download", !.user = u,
                                                                !.admission = decision ]]
                /\ user_last_request' = [user_last_request EXCEPT ![u] = now]
                /\ Disarm(u)
        /\ UNCHANGED << clock, config, semaphore, success_at >>

\* The retry function is left: its locals are gone.
LeaveRetries(r) ==
    [ r EXCEPT !.attempt = 0, !.key = "", !.tried_keys = {}, !.last_exc = NoExc, !.backoff = 0 ]

\* lines 229-240: the progress reply, the typing action and the download of
\* the attachment (awaits outside the try block: an exception of theirs
\* leaves handle_image with no finally), then `async with semaphore`:
\* acquire() takes a slot if the semaphore is not locked and suspends on a
\* new future otherwise; with a slot, the retry loop runs to its first await.
download(t) ==
    /\ task[t].pc = "download"
    /\ \E ok \in BOOLEAN :
        IF ~ok
        THEN /\ task' = [task EXCEPT ![t] = NewTask]
             /\ event' = [ NoEvent EXCEPT !.kind = "raised", !.user = task[t].user ]
             /\ UNCHANGED semaphore
        ELSE IF CanAcquire(semaphore)
        THEN /\ semaphore' = [semaphore EXCEPT !.value = @ - 1]
             /\ \E key \in pick_key({}) :
                    task' = [task EXCEPT ![t] = StartAttempt(@, key)]
             /\ event' = NoEvent
        ELSE /\ semaphore' = [semaphore EXCEPT !.waiters = Append(@, [ task |-> t, done |-> FALSE ])]
             /\ task' = [task EXCEPT ![t] = [ @ EXCEPT !.pc = "waiting" ]]
             /\ event' = NoEvent
    /\ UNCHANGED << clock, config, user_last_request, can_generate, armed_at, success_at >>

\* acquire() resumes once release() resolved its future, then the retry loop
\* runs to its first await.
acquire_resume(t) ==
    /\ task[t].pc = "waiting"
    /\ FutureDone(semaphore, t)
    /\ semaphore' = AfterWait(semaphore, t)
    /\ \E key \in pick_key({}) :
            task' = [task EXCEPT ![t] = StartAttempt(@, key)]
    /\ event' = NoEvent
    /\ UNCHANGED << clock, config, user_last_request, can_generate, armed_at, success_at >>

\* What the except block of the retry loop does with the failure `err` of
\* attempt r.attempt (lines 129-139): last_exc, backoff, asyncio.sleep.
OnCallError(r, err) ==
    [ r EXCEPT !.pc = "sleep", !.last_exc = err, !.upstream_err = err,
               !.backoff = Backoff(r.attempt), !.slept = @ + 1 ]

\* lines 123-139: the edit call returns an image (the function returns it and
\* handle_image awaits the OCR checks), or the call or the decoding of its
\* payload fails.
call_return(t) ==
    /\ task[t].pc = "call"
    /\ \E res \in {"ok"} \cup UpstreamErrors :
        IF res = "ok"
        THEN task' = [task EXCEPT ![t] = [ LeaveRetries(@) EXCEPT !.pc = "post" ]]
        ELSE task' = [task EXCEPT ![t] = OnCallError(@, res)]
    /\ event' = NoEvent
    /\ UNCHANGED << clock, config, semaphore, user_last_request, can_generate, armed_at, success_at >>

\* (mutant) for attempt in range(RETRY_ATTEMPTS)
MoreAttempts_one_fewer(attempt) == attempt + 1 < RETRY_ATTEMPTS

\* The loop goes on while attempt + 1 is in range(RETRY_ATTEMPTS + 1).
MoreAttempts(attempt) == attempt + 1 < Attempts

\* The sleep ends: the next iteration runs to its await, or the loop is over
\* and `raise last_exc` leaves the `async with` (release) for the except
\* block of handle_image, which awaits its reply_text.
sleep_return(t) ==
    /\ task[t].pc = "sleep"
    /\ IF MoreAttempts(task[t].attempt)
       THEN /\ \E key \in pick_key(task[t].tried_keys) :
                    task' = [task EXCEPT ![t] = StartAttempt([ @ EXCEPT !.attempt = @ + 1 ], key)]
            /\ UNCHANGED semaphore
       ELSE /\ task' = [task EXCEPT ![t] = [ LeaveRetries(@) EXCEPT !.pc = "fail_reply",
                                                                  !.exc = task[t].last_exc ]]
            /\ semaphore' = Release(semaphore)
    /\ event' = NoEvent
    /\ UNCHANGED << clock, config, user_last_request, can_generate, armed_at, success_at >>

\* lines 246-256: the OCR checks (which catch their own errors) and the foil
\* stamp, run in threads; the stamp may raise.
post_process(t) ==
    /\ task[t].pc = "post"
    /\ \E ok \in BOOLEAN :
        IF ok
        THEN /\ task' = [task EXCEPT ![t] = [ @ EXCEPT !.pc = "reply_photo" ]]
             /\ UNCHANGED semaphore
        ELSE /\ task' = [task EXCEPT ![t] = [ @ EXCEPT !.pc = "fail_reply", !.exc = PostError ]]
             /\ semaphore' = Release(semaphore)
    /\ event' = NoEvent
    /\ UNCHANGED << clock, config, user_last_request, can_generate, armed_at, success_at >>

\* (mutant) a finally block that keeps the admission's timestamp
Finally_keeps_request_time(u) ==
    /\ Arm(u)
    /\ UNCHANGED user_last_request

\* the finally block of handle_image (lines 273-277)
Finally(u) ==
    /\ Arm(u)
    /\ user_last_request' = [user_last_request EXCEPT ![u] = clock]

\* lines 262-277: reply_photo returns, the slot is released and the finally
\* block runs; or it raises, and the except block awaits its reply_text.
reply_photo(t) ==
    /\ task[t].pc = "reply_photo"
    /\ semaphore' = Release(semaphore)
    /\ \E ok \in BOOLEAN :
        IF ok
        THEN /\ task' = [task EXCEPT ![t] = NewTask]
             /\ event' = [ NoEvent EXCEPT !.kind = "photo", !.user = task[t].user ]
             /\ Finally(task[t].user)
             /\ success_at' = [ w \in Watched |-> IF w = task[t].user THEN clock ELSE success_at[w] ]
        ELSE /\ task' = [task EXCEPT ![t] = [ @ EXCEPT !.pc = "fail_reply", !.exc = PostError ]]
             /\ event' = NoEvent
             /\ UNCHANGED << user_last_request, can_generate, armed_at, success_at >>
    /\ UNCHANGED << clock, config >>

\* lines 269-277: the failure text is sent, or sending it raises; the finally
\* block runs either way.
fail_reply(t) ==
    /\ task[t].pc = "fail_reply"
    /\ \E ok \in BOOLEAN :
        event' = [ NoEvent EXCEPT !.kind = IF ok THEN "failed" ELSE "failed_raised",
                                  !.user = task[t].user ]
    /\ task' = [task EXCEPT ![t] = NewTask]
    /\ Finally(task[t].user)
    /\ UNCHANGED << clock, config, semaphore, success_at >>

Next ==
    \/ Tick
    \/ \E u \in Users : generate_cmd(u)
    \/ \E u \in Users : button_callback(u)
    \/ \E u \in Users : handle_image(u)
    \/ \E t \in Tasks : download(t)
    \/ \E t \in Tasks : acquire_resume(t)
    \/ \E t \in Tasks : call_return(t)
    \/ \E t \in Tasks : sleep_return(t)
    \/ \E t \in Tasks : post_process(t)
    \/ \E t \in Tasks : reply_photo(t)
    \/ \E t \in Tasks : fail_reply(t)

Spec == Init /\ [][Next]_vars
SpecSlots == InitSlots /\ [][Next]_vars
SpecRetry == InitRetry /\ [][Next]_vars
SpecKeys == InitKeys /\ [][Next]_vars

\* The event loop runs every coroutine that is ready: a pipeline whose await
\* on Telegram, on the semaphore, on a sleep or on a worker thread is over
\* resumes.  What users send and when time passes is not forced.
Resumes(t) ==
    \/ download(t) \/ acquire_resume(t) \/ sleep_return(t)
    \/ post_process(t) \/ reply_photo(t) \/ fail_reply(t)

\* every upstream call returns, and the event loop is fair
SpecLive ==
    /\ InitLive /\ [][Next]_vars
    /\ \A t \in 1..GateTasks : WF_vars(Resumes(t)) /\ WF_vars(call_return(t))

\* an upstream call may never return: client.images.edit is given no
\* timeout and asyncio.to_thread is awaited without one
SpecHung ==
    /\ InitLive /\ [][Next]_vars
    /\ \A t \in 1..GateTasks : WF_vars(Resumes(t))

\* ------------------------------------------------------------------ claims
\* The event variable holds what the step just taken told the user and is
\* reset by every other step, so a state predicate on it speaks of the state
\* right after that step.

\* the user's last delivered card is less than the cooldown old
InSuccessWindow(u) ==
    /\ u \in Watched
    /\ success_at[u] # None
    /\ clock - success_at[u] < USER_COOLDOWN_SECONDS * TicksPerSecond

\* C1: at no time are two generation pipelines of the same user in flight
\* (between an image's admission and its finally block).
C1_OnePipelinePerUser ==
    \A u \in Users : Cardinality(InFlight(u)) <= 1

\* C2: the number of pipelines inside the semaphore-guarded section is at
\* most MAX_CONCURRENCY, whatever the users submit.
C2_AtMostMaxConcurrency ==
    Cardinality(Guarded) <= MAX_CONCURRENCY

\* every slot is taken, pipelines of two users hold or await one
C2_Witness ==
    /\ Cardinality(Guarded) = MAX_CONCURRENCY
    /\ \E t \in Tasks : task[t].pc = "waiting"
    /\ \E s, t \in Guarded : task[s].user # task[t].user

\* C3: a rejected image (cooldown active, or user not armed) starts no
\* pipeline and takes no slot, and every upstream call is made by the
\* pipeline of an admitted image.
C3_RejectedImageCallsNothing ==
    [][ /\ event'.kind \in RejectedKinds => (task' = task /\ semaphore' = semaphore)
        /\ \A t \in Tasks : task'[t].calls > task[t].calls =>
                /\ task'[t].admission = "admitted"
                /\ task[t].pc \in InFlightPcs ]_vars

\* an armed user's image was just rejected for cooldown, and nothing runs for
\* the user
C3_Witness ==
    /\ event.kind = "cooldown"
    /\ can_generate[event.user]
    /\ InFlight(event.user) = {}

\* C4: the completion of a pipeline leaves its user IDLE, not ARMED: a user
\* who was not armed when the pipeline completed is not armed after it.
C4_IdleAfterCompletion ==
    [][ \A u \in Users :
            (event'.kind \in CompletedKinds /\ event'.user = u /\ ~can_generate[u])
                => ~can_generate'[u] ]_vars

\* C5: a failed generation does not start the user's cooldown: right after
\* it no cooldown is active, unless a card delivered earlier started one.
C5_FailureStartsNoCooldown ==
    (event.kind \in {"failed", "failed_raised"} /\ event.user \in Watched)
        => (   (clock - user_last_request[event.user] < USER_COOLDOWN_SECONDS * TicksPerSecond)
            => InSuccessWindow(event.user) )

\* C6: an image submitted less than the cooldown after the user's last
\* delivered card is rejected for cooldown, however long ago the image of
\* that card was admitted.
C6_CooldownFromCompletion ==
    (event.kind \in ImageKinds /\ InSuccessWindow(event.user))
        => event.kind = "cooldown"

\* an image was rejected for cooldown in a later tick than the card's delivery
C6_Witness ==
    /\ event.kind = "cooldown"
    /\ InSuccessWindow(event.user)
    /\ event.last = success_at[event.user]
    /\ clock > success_at[event.user]

C8_RemainingPositiveAndBounded ==
    /\ event.kind = "cooldown" =>
            (event.remaining > 0 /\ event.remaining <= USER_COOLDOWN_SECONDS)
    /\ (event.kind \in ImageKinds /\ event.last # None) =>
            (event.kind = "cooldown" <=>
                clock - event.last < USER_COOLDOWN_SECONDS * TicksPerSecond)
    /\ \A last \in 0..horizon : \A n1 \in last..horizon : \A n2 \in n1..horizon :
            (n2 - last < USER_COOLDOWN_SECONDS * TicksPerSecond)
                => Remaining(last, n1) >= Remaining(last, n2)

\* C9: an image submitted more than the arm TTL after the user was last
\* armed is not admitted.
C9_ArmedStateExpires ==
    (event.kind = "admitted" /\ event.user \in Watched)
        => clock - event.armed_at <= ArmTTL

\* the retry loop of a pipeline ended with every attempt failed
Exhausted(t) == task[t].pc = "fail_reply" /\ task[t].exc \in UpstreamErrors

\* C10 as stated: with every call failing, exactly RETRY_ATTEMPTS calls are
\* made and the error of the last call is raised.
C10_ExactlyRetryAttemptsCalls ==
    \A t \in Tasks : Exhausted(t) =>
        (task[t].calls = RETRY_ATTEMPTS /\ task[t].exc = task[t].upstream_err)

\* C10 amended: with every call failing, exactly RETRY_ATTEMPTS + 1 calls are
\* made and the error of the last call is raised.
C10_OneCallMoreThanRetryAttempts ==
    \A t \in Tasks : Exhausted(t) =>
        (task[t].calls = RETRY_ATTEMPTS + 1 /\ task[t].exc = task[t].upstream_err)

\* a pipeline retried at least once and gave up
C10_Witness ==
    \E t \in Tasks :
        /\ Exhausted(t)
        /\ RETRY_ATTEMPTS >= 1
        /\ task[t].calls = RETRY_ATTEMPTS + 1
        /\ task[t].slept = task[t].calls

\* the number of distinct credentials of the pool
PoolSize == Cardinality(RangeOf(OPENAI_KEYS))

Min(a, b) == IF a <= b THEN a ELSE b

\* C11: within one call of the retry function, an attempt is made only
\* before any attempt has succeeded and after every earlier one failed; its
\* key is one not tried yet unless every key of the pool has been tried, so
\* the first min(pool size, attempts) keys are pairwise distinct; and the
\* function returns the image as soon as a call succeeds, the last one
\* included.
C11_DistinctKeysUntilPoolExhausted ==
    [][ \A t \in Tasks :
          /\ task'[t].calls > task[t].calls =>
                /\ task[t].pc \in {"download", "waiting", "sleep"}
                /\ task[t].pc = "sleep" => task[t].last_exc \in UpstreamErrors
                /\ task'[t].calls <= Attempts
                /\ task[t].tried_keys # RangeOf(OPENAI_KEYS)
                        => task'[t].key \notin task[t].tried_keys
                /\ Cardinality(task'[t].tried_keys) = Min(PoolSize, task'[t].calls)
          /\ (task[t].pc = "call" /\ task'[t].pc \notin {"call", "post"}) => task'[t].last_exc \in UpstreamErrors
          /\ task[t].pc \in {"post", "reply_photo", "fail_reply"}
                => task'[t].calls <= task[t].calls ]_vars

\* every call but the last failed, the last returned the image, and the
\* attempts outnumber the keys of a pool of two
C11_Witness ==
    \E t \in Tasks :
        /\ task[t].pc = "post"
        /\ task[t].calls = Attempts
        /\ task[t].slept = Attempts - 1
        /\ PoolSize >= 2
        /\ Attempts > PoolSize

\* C12: for every key list and every exclusion set, pick_key returns a key
\* of the list and does not raise (random.choice is never given an empty
\* list); the key is outside the exclusion set whenever the list has a key
\* outside it, and any key of the list otherwise.
C12_PickKeyReturnsPoolMember ==
    \A exclude_keys \in SUBSET KeyUniverse :
        /\ pick_key(exclude_keys) # {}
        /\ pick_key(exclude_keys) \subseteq RangeOf(OPENAI_KEYS)
        /\ RangeOf(OPENAI_KEYS) \ exclude_keys # {}
                => pick_key(exclude_keys) = RangeOf(OPENAI_KEYS) \ exclude_keys
        /\ RangeOf(OPENAI_KEYS) \subseteq exclude_keys
                => pick_key(exclude_keys) = RangeOf(OPENAI_KEYS)

\* a retry drew its key from the full list, the one key of a list of two
\* entries having been tried
C12_Witness ==
    \E t \in Tasks :
        /\ task[t].pc = "call"
        /\ Len(OPENAI_KEYS) = 2
        /\ task[t].attempt >= PoolSize
        /\ task[t].key \in RangeOf(OPENAI_KEYS)

\* C13 as stated: the free slots and the pipelines inside the guarded
\* section always add up to MAX_CONCURRENCY, and every slot is free once no
\* pipeline is in flight.
C13_FreePlusGuardedIsMax ==
    /\ semaphore.value + Cardinality(Guarded) = MAX_CONCURRENCY
    /\ (\A t \in Tasks : task[t].pc \notin InFlightPcs) => semaphore.value = MAX_CONCURRENCY

\* C13 amended: every exit path of the guarded section releases the slot:
\* the free slots, the pipelines inside the guarded section and the
\* suspended pipelines a release has handed its slot to always add up to
\* MAX_CONCURRENCY, and once no pipeline is in flight every slot is free and
\* nothing waits.
C13_SlotsConserved ==
    /\ semaphore.value + Cardinality(Guarded) + Cardinality(Granted) = MAX_CONCURRENCY
    /\ (\A t \in Tasks : task[t].pc \notin InFlightPcs) =>
            (semaphore.value = MAX_CONCURRENCY /\ semaphore.waiters = <<>>)

\* a pipeline left the guarded section on an exception and its slot went to
\* a suspended pipeline, while two slots exist
C13_Witness ==
    /\ MAX_CONCURRENCY = 2
    /\ \E t \in Tasks : task[t].pc = "fail_reply" /\ task[t].exc = PostError
    /\ Granted # {}

\* C14: with a fair event loop and every upstream call returning, a pipeline
\* suspended on the semaphore eventually acquires a slot and starts its
\* first upstream call, whatever the users go on submitting.
C14_WaitingPipelineGetsSlot ==
    \A t \in 1..GateTasks : (task[t].pc = "waiting") ~> (task[t].pc = "call")

\* a pipeline waits for the slot a pipeline of another user holds
C14_Witness ==
    \E s, t \in Tasks :
        /\ task[t].pc = "waiting"
        /\ ~FutureDone(semaphore, t)
        /\ s \in Guarded
        /\ task[s].user # task[t].user

\* C15: even if the upstream never answers a call, the pipeline that issued
\* it eventually leaves the guarded section (its slot released, its user
\* armed again by the finally block).
C15_HungCallIsAbandoned ==
    \A t \in 1..GateTasks : (task[t].pc = "call") ~> (task[t].pc \notin GuardedPcs)

\* C16: no exception leaves handle_image once an image is admitted: its
\* pipeline ends with the photo or with one failure text sent and the
\* handler returning normally.
C16_NoErrorLeavesHandleImage ==
    event.kind \notin {"raised", "failed_raised"}

\* `not k.strip()`: the entry is empty or blank
Blank(key) == key = ""

\* C17: no upstream call is ever issued with an empty or blank credential
\* (a key list with no usable entry keeps the process from starting).
C17_NoCallWithBlankCredential ==
    \A t \in Tasks : task[t].pc = "call" => ~Blank(task[t].key)

\* C18: the retry function sleeps after a failed attempt only when another
\* attempt follows, and the backoff is 1 + 2 * attempt seconds, strictly
\* increasing with the attempt.
C18_NoSleepAfterLastAttempt ==
    /\ \A t \in Tasks : task[t].pc = "sleep" =>
            /\ task[t].attempt < RETRY_ATTEMPTS
            /\ task[t].backoff = 1 + 2 * task[t].attempt
    /\ \A a \in 0..RETRY_ATTEMPTS : \A b \in 0..RETRY_ATTEMPTS :
            a < b => Backoff(a) < Backoff(b)

\* C19: a rejection of an image by handle_image (cooldown active, or user
\* not armed) leaves user_last_request and can_generate of every user as
\* they were.
C19_RejectionChangesNoUserState ==
    [][ event'.kind \in RejectedKinds =>
            (user_last_request' = user_last_request /\ can_generate' = can_generate) ]_vars

\* a user with a request time was just rejected as not armed and is still
\* not armed, with the same request time, while another user is armed
C19_Witness ==
    /\ event.kind = "not_armed"
    /\ event.last # None
    /\ user_last_request[event.user] = event.last
    /\ ~can_generate[event.user]
    /\ \E v \in Users : v # event.user /\ can_generate[v]

\* C20: the armed check and the disarm of handle_image run with no await
\* between them, so one arming admits at most one image: an admitted image
\* leaves its user disarmed with the request time set to now, it used an
\* arming made since the user's last admission, and an image sent with no
\* such arming is rejected.
C20_OneArmingAdmitsOneImage ==
    /\ \A u \in Watched : can_generate[u] <=> armed_at[u] # None
    /\ event.kind = "admitted" =>
            /\ ~can_generate[event.user]
            /\ user_last_request[event.user] = clock
            /\ event.user \in Watched => event.armed_at # None
    /\ (event.kind \in ImageKinds /\ event.user \in Watched /\ event.armed_at = None)
            => event.kind \in RejectedKinds

\* the second of two images sent on one arming was just rejected as not
\* armed, the pipeline of the first not being past its first await
C20_Witness ==
    /\ event.kind = "not_armed"
    /\ event.user \in Watched
    /\ event.armed_at = None
    /\ \E t \in InFlight(event.user) : task[t].pc = "download"

====
